---- MODULE Spec2Model ----
(***************************************************************************)
(* Model of disk-cleanup-tool: the three-pass directory scanner            *)
(* (src/scanner.rs, scan_directory) and the name classifier                *)
(* (src/utils.rs, is_temp_directory).                                      *)
(*                                                                         *)
(* A path is the sequence of its normal components below "/": <<>> is "/", *)
(* <<"w","src">> is /w/src.  A filesystem is a set of directory paths and  *)
(* a function from file paths to file sizes.                               *)
(***************************************************************************)
EXTENDS Integers, Sequences, FiniteSets, TLC

VARIABLES
    fsDirs,             \* directories that exist on disk
    fsFiles,            \* regular files on disk: file path -> size in bytes
    denied,             \* directories whose listing fails (walk error)
    unreadable,         \* files whose metadata cannot be read
    root_path,          \* ScanConfig.root_path
    temp_only,          \* ScanConfig.temp_only
    pc,                 \* position inside scan_directory
    visited,            \* entries the Pass 1 WalkDir iterator has yielded
    dir_stats,          \* HashMap path -> (direct files, direct size, is_temp)
    temp_dirs_to_scan,  \* Vec of temp directories queued for Pass 2
    temp_idx,           \* number of queued temp directories Pass 2 has done
    cumulative_stats,   \* HashMap path -> (cumulative files, cumulative size)
    entries,            \* the Vec<DirectoryEntry> being returned
    result,             \* "none" while running, then "Ok" or "PathNotFound"
    cat_name,           \* classifier test: a name of the temp catalog
    prefix,             \* classifier test: string put before cat_name
    suffix,             \* classifier test: string put after cat_name
    verdict,            \* classifier output: "none", "Temporary", "Normal"
    csv_entries,        \* the &[DirectoryEntry] handed to write_csv
    csv_written,        \* TRUE when the file on disk came from write_csv
    csv_header,         \* first record of the file on disk
    csv_rows,           \* data records of the file on disk
    csv_pc,             \* position inside write_csv / read_csv
    csv_line,           \* read_csv: line_num of the next record
    csv_out,            \* read_csv: the entries pushed so far
    csv_result,         \* what read_csv returned
    del_paths,          \* the &[PathBuf] handed to delete_directories
    del_dirs,           \* directories on disk while deleting
    del_locked,         \* directories that cannot be removed
    del_idx,            \* paths of del_paths the loop has handled
    successful,         \* DeletionReport.successful
    failed,             \* DeletionReport.failed (the paths)
    total_freed_bytes,  \* DeletionReport.total_freed_bytes
    del_result,         \* "none", then "Ok"
    sess_input,         \* the Vec<DirectoryEntry> handed to InteractiveSession::new
    sess_entries,       \* InteractiveSession.entries
    selected,           \* InteractiveSession.selected (0-based indices)
    current_index,      \* InteractiveSession.current_index
    scroll_offset,      \* InteractiveSession.scroll_offset
    sess_pc,            \* "new" before the constructor ran, then "ready"; inside run:
                        \* "draw", "poll", "restore", "returned", "panicked"
    list_height,        \* list_height of the last render_list
    underflow,          \* TRUE once a usize subtraction went below zero
    keys_pressed,       \* number of key presses handled by run_loop
    last_key,           \* the key press run_loop handled last
    prev_selected,      \* selected as it was before that key press
    sess_result,        \* what InteractiveSession::run returned
    main_pc,            \* position of main inside its interactive block
    confirm_result,     \* what confirm_deletion returned, and how
    delete_call,        \* the call of delete_directories made by main
    ui_pc,              \* position of the UI thread inside scan_with_progress
    frame_idx,          \* spinner frame of the polling loop
    progress,           \* the shared ScanProgress record
    mutex,              \* holder of the progress mutex: "free" or "ui"
    shown,              \* the ScanProgress values last rendered
    ui_result           \* what scan_with_progress returned

classVars == <<cat_name, prefix, suffix, verdict>>
vars == <<fsDirs, fsFiles, denied, unreadable, root_path, temp_only, pc, visited, dir_stats,
          temp_dirs_to_scan, temp_idx, cumulative_stats, entries, result,
          cat_name, prefix, suffix, verdict,
          csv_entries, csv_written, csv_header, csv_rows, csv_pc, csv_line, csv_out, csv_result,
          del_paths, del_dirs, del_locked, del_idx, successful, failed,
          total_freed_bytes, del_result,
          sess_input, sess_entries, selected, current_index, scroll_offset, sess_pc,
          list_height, underflow, keys_pressed, last_key, prev_selected, sess_result,
          main_pc, confirm_result, delete_call,
          ui_pc, frame_idx, progress, mutex, shown, ui_result>>
scanVars == <<fsDirs, fsFiles, denied, unreadable, root_path, temp_only, pc, visited, dir_stats,
              temp_dirs_to_scan, temp_idx, cumulative_stats, entries, result>>
csvVars == <<csv_entries, csv_written, csv_header, csv_rows, csv_pc, csv_line, csv_out, csv_result>>
delVars == <<del_paths, del_dirs, del_locked, del_idx, successful, failed,
             total_freed_bytes, del_result>>
sessVars == <<sess_input, sess_entries, selected, current_index, scroll_offset, sess_pc>>
uiVars == <<ui_pc, frame_idx, progress, mutex, shown, ui_result>>
keyVars == <<list_height, underflow, keys_pressed, last_key, prev_selected, sess_result,
             main_pc, confirm_result, delete_call>>
\* everything outside the scanner and the classifier
auxVars == <<csvVars, delVars, sessVars, uiVars, keyVars>>
\* everything outside csv_handler.rs
nonCsvVars == <<scanVars, classVars, delVars, sessVars, uiVars, keyVars>>
\* everything outside deletion.rs
nonDelVars == <<scanVars, classVars, csvVars, sessVars, uiVars, keyVars>>
\* everything outside interactive.rs
nonSessVars == <<scanVars, classVars, csvVars, delVars, uiVars, keyVars>>
\* everything the UI thread of scan_ui.rs does not touch
nonUiVars == <<scanVars, classVars, csvVars, delVars, sessVars, keyVars>>
\* everything outside interactive.rs and the interactive block of main.rs
nonKeyVars == <<scanVars, classVars, csvVars, delVars, uiVars>>

(***************************************************************************)
(* Bounds of the explored inputs.                                          *)
(***************************************************************************)
MaxDirs == 3        \* directories beneath the scan root
MaxFiles == 2       \* regular files in the whole tree
MaxAffix == 2       \* most atoms in a prefix / suffix glued to a catalog name
MaxFaultDirs == 2   \* directories beneath the root when entries may fail
MaxFaults == 1      \* entries of the tree whose I/O fails
MaxCsvEntries == 2  \* entries handed to write_csv
MaxCsvRows == 2     \* data records of a file handed to read_csv
MaxDelPaths == 2    \* paths handed to delete_directories
MaxSessEntries == 3 \* entries handed to InteractiveSession::new
MaxUiDirs == 1      \* directories beneath the root scanned under the progress UI

DirNames == {"src", "dist"}
FileNames == <<"a.txt", "b.txt", "c.txt", "d.txt">>
RootPaths == {<<"w">>, <<"tmp">>, <<"tmp", "w">>}
FileSizes == <<1, 2, 3, 4>>
AffixAtoms == {".", "_", "v", "x", "code"}

(***************************************************************************)
(* utils.rs: the classifier.                                               *)
(***************************************************************************)
TempCatalog ==
    {"node_modules", ".npm", ".yarn", ".pnpm-store", ".turbo",
     ".parcel-cache", ".webpack", ".rollup.cache", ".vite", ".next", ".nuxt",
     ".output", ".vercel", ".netlify", "bower_components",
     ".venv", "venv", "env", ".env", "__pycache__", ".pytest_cache",
     ".mypy_cache", ".tox", ".eggs", "*.egg-info", ".ipynb_checkpoints",
     "target", ".fingerprint", ".cargo",
     "dist", "build", "out", ".build", "_build", ".gradle", ".mvn",
     ".cache", "cache", ".tmp", "tmp", "temp", ".temp",
     ".nvm", ".rvm", ".rbenv", ".pyenv",
     ".idea", ".vscode", ".vs", ".eclipse", ".settings",
     ".DS_Store", "Thumbs.db", ".Trash",
     "coverage", ".coverage", ".nyc_output", "htmlcov", ".sass-cache",
     ".docusaurus"}

\* the non-empty strings of at most k atoms
RECURSIVE AffixesUpTo(_)
AffixesUpTo(k) ==
    IF k = 0 THEN {}
    ELSE AffixAtoms \cup {a \o b : a \in AffixAtoms, b \in AffixesUpTo(k - 1)}

Affixes == AffixesUpTo(MaxAffix)

\* a classifier that matches the end of the name instead of the whole name
IsTempBySuffix(n) == \E c \in TempCatalog, p \in Affixes \cup {""} : n = p \o c

\* lines 2-75: matches!(name, "node_modules" | ".npm" | ...)
is_temp_directory(n) == n \in TempCatalog

ClassifyIdle == cat_name = "" /\ prefix = "" /\ suffix = "" /\ verdict = "none"

NoResult == [kind |-> "none", column |-> <<>>, line |-> 0, entries |-> <<>>]

CsvIdle ==
    /\ csv_entries = <<>> /\ csv_written = FALSE
    /\ csv_header = <<>> /\ csv_rows = <<>>
    /\ csv_pc = "idle" /\ csv_line = 0 /\ csv_out = <<>> /\ csv_result = NoResult

DelIdle ==
    /\ del_paths = <<>> /\ del_dirs = {} /\ del_locked = {} /\ del_idx = 0
    /\ successful = <<>> /\ failed = <<>> /\ total_freed_bytes = 0
    /\ del_result = "idle"

NoRun == [kind |-> "none", paths |-> {}]
NoConfirm == [value |-> FALSE, via |-> "none"]
NoCall == [called |-> FALSE, paths |-> {}]

KeyIdle ==
    /\ list_height = 0 /\ underflow = FALSE /\ keys_pressed = 0
    /\ last_key = "none" /\ prev_selected = {} /\ sess_result = NoRun
    /\ main_pc = "idle" /\ confirm_result = NoConfirm /\ delete_call = NoCall

SessIdle ==
    /\ sess_input = <<>> /\ sess_entries = <<>> /\ selected = {}
    /\ current_index = 0 /\ scroll_offset = 0 /\ sess_pc = "idle"
    /\ KeyIdle

\* scan_ui.rs lines 25-33: ScanProgress::new
ScanProgressNew == [files_scanned |-> 0, dirs_scanned |-> 0, current_path |-> ""]

UiIdle ==
    /\ ui_pc = "idle" /\ frame_idx = 0 /\ progress = ScanProgressNew
    /\ mutex = "free" /\ shown = ScanProgressNew
    /\ ui_result = [kind |-> "none", entries |-> <<>>]

AuxIdle == CsvIdle /\ DelIdle /\ SessIdle /\ UiIdle

ScanIdle ==
    /\ fsDirs = {} /\ fsFiles = <<>> /\ root_path = <<>> /\ temp_only = FALSE
    /\ denied = {} /\ unreadable = {}
    /\ pc = "idle" /\ visited = {} /\ dir_stats = <<>>
    /\ temp_dirs_to_scan = <<>> /\ temp_idx = 0 /\ cumulative_stats = <<>>
    /\ entries = <<>> /\ result = "none"

\* the name handed to the classifier: format!("{}{}", prefix, name) etc.
ClassifiedName == prefix \o cat_name \o suffix

InitClassify ==
    /\ cat_name \in TempCatalog
    /\ \/ prefix = "" /\ suffix = ""
       \/ prefix \in Affixes /\ suffix = ""
       \/ prefix = "" /\ suffix \in Affixes
    /\ verdict = "none"
    /\ ScanIdle
    /\ AuxIdle

Classify ==
    /\ verdict = "none"
    /\ cat_name # ""
    /\ verdict' = IF is_temp_directory(ClassifiedName) THEN "Temporary" ELSE "Normal"
    /\ UNCHANGED <<cat_name, prefix, suffix, scanVars, auxVars>>

NextClassify == Classify

SpecClassify == InitClassify /\ [][NextClassify]_vars

(***************************************************************************)
(* std::path::Path helpers.                                                *)
(***************************************************************************)
HasParent(p) == Len(p) > 0
Parent(p) == SubSeq(p, 1, Len(p) - 1)
HasFileName(p) == Len(p) > 0
FileName(p) == p[Len(p)]
\* components().count(): the RootDir component plus the normal components
Depth(p) == Len(p) + 1
IsPrefix(p, q) == Len(p) <= Len(q) /\ SubSeq(q, 1, Len(p)) = p

(***************************************************************************)
(* The filesystems explored: every tree of at most MaxDirs directories     *)
(* beneath the root, holding at most MaxFiles regular files.               *)
(***************************************************************************)
RECURSIVE TreesUpTo(_, _)
TreesUpTo(root, k) ==
    IF k = 0 THEN {{root}}
    ELSE LET prev == TreesUpTo(root, k - 1)
         IN  prev \cup UNION {{T \cup {Append(p, n)} : p \in T, n \in DirNames}
                              : T \in prev}

FilesIn(files, d) == {f \in DOMAIN files : Parent(f) = d}

\* the files of one directory are a.txt (1 byte), b.txt (2 bytes), ...
RECURSIVE FileSetsUpTo(_, _)
FileSetsUpTo(dirs, k) ==
    IF k = 0 THEN {<<>>}
    ELSE LET prev == FileSetsUpTo(dirs, k - 1)
         IN  prev \cup UNION {
                 {LET i == Cardinality(FilesIn(files, d)) + 1
                  IN  files @@ (Append(d, FileNames[i]) :> FileSizes[i]) : d \in dirs}
                 : files \in {g \in prev : Cardinality(DOMAIN g) = k - 1}}

RECURSIVE SumOver(_, _)
SumOver(f, S) ==
    IF S = {} THEN 0
    ELSE LET x == CHOOSE y \in S : TRUE IN f[x] + SumOver(f, S \ {x})

RECURSIVE Perms(_)
Perms(S) ==
    IF S = {} THEN {<<>>}
    ELSE UNION {{<<x>> \o q : q \in Perms(S \ {x})} : x \in S}

(***************************************************************************)
(* scanner.rs, scan_directory.                                             *)
(***************************************************************************)
Init ==
    /\ root_path \in RootPaths
    /\ temp_only \in BOOLEAN
    /\ \/ fsDirs \in TreesUpTo(root_path, MaxDirs)
       \/ fsDirs = {}
    /\ fsFiles \in FileSetsUpTo(fsDirs, MaxFiles)
    /\ denied = {}
    /\ unreadable = {}
    /\ pc = "start"
    /\ visited = {}
    /\ dir_stats = <<>>
    /\ temp_dirs_to_scan = <<>>
    /\ temp_idx = 0
    /\ cumulative_stats = <<>>
    /\ entries = <<>>
    /\ result = "none"
    /\ ClassifyIdle
    /\ AuxIdle

\* a scan that never tests the root
RootExistsUnchecked == TRUE

\* Path::exists on config.root_path
RootExists == root_path \in fsDirs

\* lines 46-50: the only fatal condition
Start ==
    /\ pc = "start"
    /\ IF ~RootExists
       THEN /\ result' = "PathNotFound"
            /\ pc' = "done"
       ELSE /\ result' = result
            /\ pc' = "pass1"
    /\ UNCHANGED <<fsDirs, fsFiles, denied, unreadable, root_path, temp_only, visited, dir_stats,
                   temp_dirs_to_scan, temp_idx, cumulative_stats, entries,
                   classVars, auxVars>>

\* WalkDir::new(root).into_iter(): depth-first, a directory before its
\* contents, siblings in the order the filesystem lists them (arbitrary).
Children(d) == {e \in fsDirs \cup DOMAIN fsFiles : HasParent(e) /\ Parent(e) = d}
\* the Err item the walk yields in place of the contents of a directory it
\* cannot list
WalkError(d) == Append(d, "<error>")
Listing(d) == IF d \in denied THEN {WalkError(d)} ELSE Children(d)
OpenDirs == {d \in visited \cap fsDirs : Listing(d) \ visited # {}}
WalkNext ==
    IF visited = {} THEN {root_path}
    ELSE IF OpenDirs = {} THEN {}
    ELSE LET cur == CHOOSE d \in OpenDirs : \A o \in OpenDirs : Len(o) <= Len(d)
         IN  Listing(cur) \ visited

\* a classification that also looks at the name of the parent directory
DirIsTempByParent(path) ==
    /\ HasFileName(path)
    /\ \/ is_temp_directory(FileName(path))
       \/ HasFileName(Parent(path)) /\ is_temp_directory(FileName(Parent(path)))

\* lines 64-69: is_temp from the directory's own file_name
DirIsTemp(path) == IF HasFileName(path) THEN is_temp_directory(FileName(path)) ELSE FALSE

\* a walk that queues temp directories but registers no directory, leaving
\* registration to the first file found in it
Pass1DirUnregistered ==
    /\ pc = "pass1"
    /\ \E path \in WalkNext \cap fsDirs :
         /\ visited' = visited \cup {path}
         /\ dir_stats' = dir_stats
         /\ temp_dirs_to_scan' = IF DirIsTemp(path) THEN Append(temp_dirs_to_scan, path)
                                 ELSE temp_dirs_to_scan
    /\ UNCHANGED <<fsDirs, fsFiles, denied, unreadable, root_path, temp_only, pc, temp_idx,
                   cumulative_stats, entries, result, classVars, auxVars>>

\* lines 62-77: a directory entry of the walk
Pass1Dir ==
    /\ pc = "pass1"
    /\ \E path \in WalkNext \cap fsDirs :
         LET is_temp == DirIsTemp(path) IN
         /\ visited' = visited \cup {path}
         /\ dir_stats' = IF path \in DOMAIN dir_stats THEN dir_stats
                         ELSE dir_stats @@ (path :> [files |-> 0, size |-> 0, is_temp |-> is_temp])
         /\ temp_dirs_to_scan' = IF is_temp THEN Append(temp_dirs_to_scan, path)
                                 ELSE temp_dirs_to_scan
    /\ UNCHANGED <<fsDirs, fsFiles, denied, unreadable, root_path, temp_only, pc, temp_idx,
                   cumulative_stats, entries, result, classVars, auxVars>>

\* a scan that takes the size of a file whose metadata it could not read
MetadataAssumedOk(path) == TRUE

\* lines 80, 128: if let Ok(metadata) = entry.metadata()
MetadataOk(path) == path \notin unreadable

\* lines 84-97: walk the ancestors of a file up to and including root_path
RECURSIVE InTempDir(_)
InTempDir(current) ==
    IF HasFileName(current) /\ is_temp_directory(FileName(current)) THEN TRUE
    ELSE IF current = root_path THEN FALSE
    ELSE IF ~HasParent(current) THEN FALSE
    ELSE InTempDir(Parent(current))

\* a walk that adds a file to the direct stats of every registered ancestor
Pass1FileAllAncestors ==
    /\ pc = "pass1"
    /\ \E path \in WalkNext \cap DOMAIN fsFiles :
         LET size == fsFiles[path]
             in_temp_dir == IF HasParent(path) THEN InTempDir(Parent(path)) ELSE FALSE
         IN
         /\ visited' = visited \cup {path}
         /\ dir_stats' = IF MetadataOk(path) /\ ~in_temp_dir
                         THEN [q \in DOMAIN dir_stats |->
                                  IF IsPrefix(q, Parent(path))
                                  THEN [dir_stats[q] EXCEPT !.files = @ + 1, !.size = @ + size]
                                  ELSE dir_stats[q]]
                         ELSE dir_stats
    /\ UNCHANGED <<fsDirs, fsFiles, denied, unreadable, root_path, temp_only, pc, temp_dirs_to_scan,
                   temp_idx, cumulative_stats, entries, result, classVars, auxVars>>

\* lines 78-110: a regular file of the walk
Pass1File ==
    /\ pc = "pass1"
    /\ \E path \in WalkNext \cap DOMAIN fsFiles :
         LET size == fsFiles[path]
             in_temp_dir == IF HasParent(path) THEN InTempDir(Parent(path)) ELSE FALSE
             parent_buf == Parent(path)
             old == IF parent_buf \in DOMAIN dir_stats THEN dir_stats[parent_buf]
                    ELSE [files |-> 0, size |-> 0, is_temp |-> FALSE]
             new == [old EXCEPT !.files = @ + 1, !.size = @ + size]
         IN
         /\ visited' = visited \cup {path}
         /\ dir_stats' = IF MetadataOk(path) /\ ~in_temp_dir /\ HasParent(path)
                         THEN [q \in DOMAIN dir_stats \cup {parent_buf} |->
                                  IF q = parent_buf THEN new ELSE dir_stats[q]]
                         ELSE dir_stats
    /\ UNCHANGED <<fsDirs, fsFiles, denied, unreadable, root_path, temp_only, pc, temp_dirs_to_scan,
                   temp_idx, cumulative_stats, entries, result, classVars, auxVars>>

\* lines 112-116: an Err item of the walk, reported and skipped
Pass1Err ==
    /\ pc = "pass1"
    /\ \E d \in denied :
         /\ WalkError(d) \in WalkNext
         /\ visited' = visited \cup {WalkError(d)}
    /\ UNCHANGED <<fsDirs, fsFiles, denied, unreadable, root_path, temp_only, pc, dir_stats,
                   temp_dirs_to_scan, temp_idx, cumulative_stats, entries,
                   result, classVars, auxVars>>

\* line 118: the walk is exhausted
Pass1Exit ==
    /\ pc = "pass1"
    /\ WalkNext = {}
    /\ pc' = "pass2"
    /\ UNCHANGED <<fsDirs, fsFiles, denied, unreadable, root_path, temp_only, visited, dir_stats,
                   temp_dirs_to_scan, temp_idx, cumulative_stats, entries,
                   result, classVars, auxVars>>

\* a second walk that does not descend below the temp directory
FilesDirectlyIn(temp_dir) ==
    {f \in DOMAIN fsFiles : Parent(f) = temp_dir}

\* lines 122-136: WalkDir::new(temp_dir).skip(1), regular files only
FilesBeneath(temp_dir) ==
    {f \in DOMAIN fsFiles : Len(f) > Len(temp_dir) /\ IsPrefix(temp_dir, f)}

\* lines 124-136: the files the second walk counts: those it reaches without
\* passing a directory it cannot list (Err(_) => {}), with readable metadata
CountedBeneath(temp_dir) ==
    {f \in FilesBeneath(temp_dir) :
        /\ MetadataOk(f)
        /\ \A d \in denied : ~(IsPrefix(temp_dir, d) /\ IsPrefix(d, Parent(f)))}

\* lines 121-144: one queued temp directory
Pass2Step ==
    /\ pc = "pass2"
    /\ temp_idx < Len(temp_dirs_to_scan)
    /\ LET temp_dir == temp_dirs_to_scan[temp_idx + 1]
           file_count == Cardinality(CountedBeneath(temp_dir))
           size == SumOver(fsFiles, CountedBeneath(temp_dir))
       IN  dir_stats' = IF temp_dir \in DOMAIN dir_stats
                        THEN [dir_stats EXCEPT ![temp_dir] =
                                 [files |-> file_count, size |-> size, is_temp |-> TRUE]]
                        ELSE dir_stats
    /\ temp_idx' = temp_idx + 1
    /\ UNCHANGED <<fsDirs, fsFiles, denied, unreadable, root_path, temp_only, pc, visited,
                   temp_dirs_to_scan, cumulative_stats, entries, result,
                   classVars, auxVars>>

\* line 144: every queued temp directory is done
Pass2Exit ==
    /\ pc = "pass2"
    /\ temp_idx = Len(temp_dirs_to_scan)
    /\ pc' = "pass3"
    /\ UNCHANGED <<fsDirs, fsFiles, denied, unreadable, root_path, temp_only, visited, dir_stats,
                   temp_dirs_to_scan, temp_idx, cumulative_stats, entries,
                   result, classVars, auxVars>>

\* the depth sort with its comparison the other way round
ShallowestFirst(remaining) ==
    {d \in remaining : \A o \in remaining : Depth(o) >= Depth(d)}

\* the keys of dir_stats taken in HashMap order, without the depth sort
UnsortedOrder(remaining) == remaining

\* lines 148-155: dirs_by_depth, sorted by component count, deepest first;
\* the next directory is any unprocessed one of maximal depth (HashMap key
\* order among equal depths is arbitrary)
DeepestFirst(remaining) ==
    {d \in remaining : \A o \in remaining : Depth(o) <= Depth(d)}

\* lines 168-177: the registered immediate children whose total is stored
StoredChildren(dir_path) ==
    {child_path \in DOMAIN dir_stats :
        /\ HasParent(child_path)
        /\ Parent(child_path) = dir_path
        /\ child_path # dir_path
        /\ child_path \in DOMAIN cumulative_stats}

\* an aggregation that starts from zero instead of the direct stats
CumulativeOfChildren(dir_path) ==
    LET kids == StoredChildren(dir_path)
    IN  [files |-> SumOver([c \in kids |-> cumulative_stats[c].files], kids),
         size  |-> SumOver([c \in kids |-> cumulative_stats[c].size], kids)]

\* an aggregation that takes the Pass 2 total of a temp directory as its
\* cumulative total, adding no children
CumulativeOfTempIsDirect(dir_path) ==
    LET kids == IF dir_stats[dir_path].is_temp THEN {} ELSE StoredChildren(dir_path)
    IN  [files |-> dir_stats[dir_path].files
                     + SumOver([c \in kids |-> cumulative_stats[c].files], kids),
         size  |-> dir_stats[dir_path].size
                     + SumOver([c \in kids |-> cumulative_stats[c].size], kids)]

\* lines 161-179: cumulative stats of one directory
CumulativeOf(dir_path) ==
    LET kids == StoredChildren(dir_path)
    IN  [files |-> dir_stats[dir_path].files
                     + SumOver([c \in kids |-> cumulative_stats[c].files], kids),
         size  |-> dir_stats[dir_path].size
                     + SumOver([c \in kids |-> cumulative_stats[c].size], kids)]

\* lines 160-180: one directory of dirs_by_depth
Pass3Step ==
    /\ pc = "pass3"
    /\ \E dir_path \in DeepestFirst(DOMAIN dir_stats \ DOMAIN cumulative_stats) :
         cumulative_stats' = cumulative_stats @@ (dir_path :> CumulativeOf(dir_path))
    /\ UNCHANGED <<fsDirs, fsFiles, denied, unreadable, root_path, temp_only, pc, visited, dir_stats,
                   temp_dirs_to_scan, temp_idx, entries, result, classVars, auxVars>>

\* line 180: dirs_by_depth is exhausted
Pass3Exit ==
    /\ pc = "pass3"
    /\ DOMAIN dir_stats \ DOMAIN cumulative_stats = {}
    /\ pc' = "collect"
    /\ UNCHANGED <<fsDirs, fsFiles, denied, unreadable, root_path, temp_only, visited, dir_stats,
                   temp_dirs_to_scan, temp_idx, cumulative_stats, entries,
                   result, classVars, auxVars>>

\* lines 185-200: the DirectoryEntry of one key of dir_stats
MakeEntry(path) ==
    LET st == dir_stats[path]
        cum == IF path \in DOMAIN cumulative_stats THEN cumulative_stats[path]
               ELSE [files |-> st.files, size |-> st.size]
    IN  [path |-> path,
         file_count |-> st.files,
         size_bytes |-> st.size,
         cumulative_file_count |-> cum.files,
         cumulative_size_bytes |-> cum.size,
         entry_type |-> IF st.is_temp THEN "Temp" ELSE "Normal"]

\* a scan that ignores temp_only
RetainAll(es) == es

\* lines 205-207: entries.retain(Temp) when temp_only
Retain(es) ==
    IF temp_only THEN SelectSeq(es, LAMBDA e : e.entry_type = "Temp") ELSE es

\* the sort with its comparison the other way round (ascending)
InsertSortedAscending(sorted, x) ==
    LET k == Cardinality({i \in 1..Len(sorted) :
                            sorted[i].cumulative_size_bytes <= x.cumulative_size_bytes})
    IN  SubSeq(sorted, 1, k) \o <<x>> \o SubSeq(sorted, k + 1, Len(sorted))

\* line 210: where the stable sort puts an element that came after `sorted`
InsertSorted(sorted, x) ==
    LET k == Cardinality({i \in 1..Len(sorted) :
                            sorted[i].cumulative_size_bytes >= x.cumulative_size_bytes})
    IN  SubSeq(sorted, 1, k) \o <<x>> \o SubSeq(sorted, k + 1, Len(sorted))

\* line 210: stable sort, cumulative_size_bytes descending
RECURSIVE SortByCumulative(_)
SortByCumulative(es) ==
    IF es = <<>> THEN <<>>
    ELSE InsertSorted(SortByCumulative(SubSeq(es, 1, Len(es) - 1)), es[Len(es)])

\* lines 183-212: collect in HashMap iteration order, filter, sort, return Ok
Finalize ==
    /\ pc = "collect"
    /\ \E order \in Perms(DOMAIN dir_stats) :
         entries' = SortByCumulative(Retain([i \in 1..Len(order) |-> MakeEntry(order[i])]))
    /\ result' = "Ok"
    /\ pc' = "done"
    /\ UNCHANGED <<fsDirs, fsFiles, denied, unreadable, root_path, temp_only, visited, dir_stats,
                   temp_dirs_to_scan, temp_idx, cumulative_stats, classVars, auxVars>>

Next ==
    \/ Start
    \/ Pass1Dir
    \/ Pass1File
    \/ Pass1Exit
    \/ Pass2Step
    \/ Pass2Exit
    \/ Pass3Step
    \/ Pass3Exit
    \/ Finalize

Spec == Init /\ [][Next]_vars

\* the scan of a tree in which at most MaxFaults entries fail
InitFaults ==
    /\ root_path = <<"w">>
    /\ temp_only = FALSE
    /\ fsDirs \in TreesUpTo(root_path, MaxFaultDirs)
    /\ fsFiles \in FileSetsUpTo(fsDirs, MaxFiles)
    /\ \E F \in SUBSET (fsDirs \cup DOMAIN fsFiles) :
         /\ Cardinality(F) <= MaxFaults
         /\ denied = F \cap fsDirs
         /\ unreadable = F \cap DOMAIN fsFiles
    /\ pc = "start"
    /\ visited = {}
    /\ dir_stats = <<>>
    /\ temp_dirs_to_scan = <<>>
    /\ temp_idx = 0
    /\ cumulative_stats = <<>>
    /\ entries = <<>>
    /\ result = "none"
    /\ ClassifyIdle
    /\ AuxIdle

NextFaults ==
    \/ Start
    \/ Pass1Dir
    \/ Pass1File
    \/ Pass1Err
    \/ Pass1Exit
    \/ Pass2Step
    \/ Pass2Exit
    \/ Pass3Step
    \/ Pass3Exit
    \/ Finalize

SpecFaults == InitFaults /\ [][NextFaults]_vars

(***************************************************************************)
(* csv_handler.rs.  A field of a CSV record is the sequence of its         *)
(* characters; a file is its header record and its data records (the       *)
(* quoting done by csv::Writer and undone by csv::Reader is not modelled). *)
(* A path is a sequence of units: characters, or InvalidByte for a byte    *)
(* that is not valid UTF-8.                                                *)
(***************************************************************************)
Digits == <<"0", "1", "2", "3", "4", "5", "6", "7", "8", "9">>
InvalidByte == "<FF>"
ReplacementChar == "<U+FFFD>"

PathCol == <<"p","a","t","h">>
FilesCol == <<"f","i","l","e","s">>
SizeCol == <<"s","i","z","e","_","b","y","t","e","s">>
CumFilesCol == <<"c","u","m","u","l","a","t","i","v","e","_","f","i","l","e","s">>
CumSizeCol == <<"c","u","m","u","l","a","t","i","v","e","_",
                "s","i","z","e","_","b","y","t","e","s">>
TypeCol == <<"t","y","p","e">>
TempLit == <<"t","e","m","p">>
NormalLit == <<"n","o","r","m","a","l">>

\* line 27: the header write_csv writes
NewHeader == <<PathCol, FilesCol, SizeCol, CumFilesCol, CumSizeCol, TypeCol>>
OldHeader == <<PathCol, FilesCol, SizeCol, TypeCol>>
\* line 55
required == <<PathCol, FilesCol, SizeCol, TypeCol>>

\* u64::to_string
RECURSIVE to_string(_)
to_string(n) ==
    IF n < 10 THEN <<Digits[n + 1]>>
    ELSE to_string(n \div 10) \o <<Digits[(n % 10) + 1]>>

\* Path::to_string_lossy: invalid bytes become U+FFFD
ToStringLossy(path) ==
    [i \in 1..Len(path) |-> IF path[i] = InvalidByte THEN ReplacementChar ELSE path[i]]

\* lines 36-43: the record written for one entry
WriteRecord(entry) ==
    <<ToStringLossy(entry.path),
      to_string(entry.file_count),
      to_string(entry.size_bytes),
      to_string(entry.cumulative_file_count),
      to_string(entry.cumulative_size_bytes),
      IF entry.entry_type = "Temp" THEN TempLit ELSE NormalLit>>

\* str::parse::<u64>: an optional leading '+', then one or more decimal
\* digits (values beyond u64::MAX are out of the explored range)
IsDigit(c) == \E d \in 1..10 : Digits[d] = c
DigitValue(c) == (CHOOSE d \in 1..10 : Digits[d] = c) - 1
RECURSIVE DecimalValue(_)
DecimalValue(ds) ==
    IF ds = <<>> THEN 0
    ELSE 10 * DecimalValue(SubSeq(ds, 1, Len(ds) - 1)) + DigitValue(ds[Len(ds)])
ParseU64(field) ==
    LET ds == IF Len(field) > 1 /\ field[1] = "+" THEN Tail(field) ELSE field
    IN  IF ds # <<>> /\ \A i \in 1..Len(ds) : IsDigit(ds[i])
        THEN [ok |-> TRUE, val |-> DecimalValue(ds)]
        ELSE [ok |-> FALSE, val |-> 0]

\* a header check that accepts every header
MissingRequiredNone(headers) == <<>>

\* lines 55-61: the required columns the header lacks, in the order checked
MissingRequired(headers) ==
    SelectSeq(required, LAMBDA req : ~\E i \in 1..Len(headers) : headers[i] = req)

\* line 64
has_cumulative(headers) == \E i \in 1..Len(headers) : headers[i] = CumFilesCol

\* an old-format load that leaves the cumulative fields at zero
OldFormatCumulativeZero(file_count, size_bytes) == <<0, 0>>

\* lines 103-105: old format, the direct values are used as cumulative
OldFormatCumulative(file_count, size_bytes) == <<file_count, size_bytes>>

\* lines 69-125: one record of the reader.  ok = FALSE is the ParseError
\* return.  A record whose field count differs from the header's is an
\* error of the (non-flexible) csv::Reader, mapped to ParseError at line 70.
ParseRecord(headers, record) ==
    LET has_cum == has_cumulative(headers)
        expected_cols == IF has_cum THEN 6 ELSE 4
        parse_error == [ok |-> FALSE, entry |-> <<>>]
    IN  IF Len(record) # Len(headers) THEN parse_error
        ELSE IF Len(record) < expected_cols THEN parse_error
        ELSE LET file_count == ParseU64(record[2])
                 size_bytes == ParseU64(record[3])
                 type_idx == IF has_cum THEN 6 ELSE 4
             IN  IF ~file_count.ok \/ ~size_bytes.ok THEN parse_error
                 ELSE IF has_cum /\ (~ParseU64(record[4]).ok \/ ~ParseU64(record[5]).ok)
                      THEN parse_error
                 ELSE IF record[type_idx] \notin {TempLit, NormalLit} THEN parse_error
                 ELSE LET cum == IF has_cum
                                 THEN <<ParseU64(record[4]).val, ParseU64(record[5]).val>>
                                 ELSE OldFormatCumulative(file_count.val, size_bytes.val)
                      IN  [ok |-> TRUE,
                           entry |-> [path |-> record[1],
                                      file_count |-> file_count.val,
                                      size_bytes |-> size_bytes.val,
                                      cumulative_file_count |-> cum[1],
                                      cumulative_size_bytes |-> cum[2],
                                      entry_type |-> IF record[type_idx] = TempLit
                                                     THEN "Temp" ELSE "Normal"]]

SeqsUpTo(S, k) == UNION {[1..n -> S] : n \in 0..k}

\* the entries handed to write_csv: a path with and without an invalid
\* byte, all-zero and all-different numbers, both types
CsvPaths == {<<"/", "a">>, <<"/", InvalidByte, "b">>}
CsvNumbers == {<<0, 0, 0, 0>>, <<1, 20, 3, 45>>}
CsvEntryPool ==
    {[path |-> q, file_count |-> n[1], size_bytes |-> n[2],
      cumulative_file_count |-> n[3], cumulative_size_bytes |-> n[4],
      entry_type |-> t] : q \in CsvPaths, n \in CsvNumbers, t \in {"Temp", "Normal"}}

\* the files handed to read_csv that write_csv did not produce
HeaderPool ==
    {NewHeader, OldHeader, <<>>,
     <<FilesCol, SizeCol, TypeCol>>, <<PathCol, SizeCol, TypeCol>>,
     <<PathCol, FilesCol, TypeCol>>, <<PathCol, FilesCol, SizeCol>>,
     <<PathCol, TypeCol>>,
     <<TypeCol, FilesCol, SizeCol, PathCol>>}
RowPool ==
    {<<<<"/","a">>, <<"1">>, <<"2","0">>, <<"3">>, <<"4","5">>, TempLit>>,
     <<<<"/","b">>, <<"0">>, <<"0">>, <<"0">>, <<"0">>, NormalLit>>,
     <<<<"/","a">>, <<"x">>, <<"2","0">>, <<"3">>, <<"4","5">>, TempLit>>,
     <<<<"/","a">>, <<"1">>, <<"2","0">>, <<"3">>, <<"4",".","5">>, NormalLit>>,
     <<<<"/","a">>, <<"1">>, <<"2","0">>, <<"3">>, <<"4","5">>, <<"T","e","m","p">>>>,
     <<<<"/","a">>, <<"7">>, <<"9">>, TempLit>>,
     <<<<"/","b">>, <<"+","7">>, <<"0">>, NormalLit>>,
     <<<<"/","a">>, <<"7">>, <<"-","9">>, TempLit>>,
     <<<<"/","a">>, <<>>, <<"9">>, NormalLit>>,
     <<<<"/","a">>, <<"7">>, <<"9">>, <<"d","i","r">>>>,
     <<<<"d","i","r">>, <<"7">>, <<"9">>, TempLit>>,
     <<<<"/","a">>, <<"7">>>>}

InitCsv ==
    /\ ScanIdle
    /\ ClassifyIdle
    /\ DelIdle
    /\ SessIdle
    /\ UiIdle
    /\ csv_line = 0
    /\ csv_out = <<>>
    /\ csv_result = NoResult
    /\ \/ /\ csv_pc = "write"
          /\ csv_entries \in SeqsUpTo(CsvEntryPool, MaxCsvEntries)
          /\ csv_written = FALSE
          /\ csv_header = <<>>
          /\ csv_rows = <<>>
       \/ /\ csv_pc = "open"
          /\ csv_entries = <<>>
          /\ csv_written = FALSE
          /\ csv_header \in HeaderPool
          /\ csv_rows \in SeqsUpTo(RowPool, MaxCsvRows)

\* lines 22-48: write_csv
WriteCsv ==
    /\ csv_pc = "write"
    /\ csv_header' = NewHeader
    /\ csv_rows' = [i \in 1..Len(csv_entries) |-> WriteRecord(csv_entries[i])]
    /\ csv_written' = TRUE
    /\ csv_pc' = "open"
    /\ UNCHANGED <<csv_entries, csv_line, csv_out, csv_result, nonCsvVars>>

\* lines 50-66: read_csv opens the file and verifies the header
ReadHeaders ==
    /\ csv_pc = "open"
    /\ LET missing == MissingRequired(csv_header)
       IN  IF missing # <<>>
           THEN /\ csv_result' = [kind |-> "MissingColumn", column |-> missing[1],
                                  line |-> 0, entries |-> <<>>]
                /\ csv_pc' = "returned"
           ELSE /\ csv_result' = csv_result
                /\ csv_pc' = "records"
    /\ UNCHANGED <<csv_entries, csv_written, csv_header, csv_rows, csv_line, csv_out,
                   nonCsvVars>>

\* lines 68-125: one iteration of reader.records().enumerate()
ReadRecord ==
    /\ csv_pc = "records"
    /\ csv_line < Len(csv_rows)
    /\ LET parsed == ParseRecord(csv_header, csv_rows[csv_line + 1])
       IN  IF parsed.ok
           THEN /\ csv_out' = Append(csv_out, parsed.entry)
                /\ csv_line' = csv_line + 1
                /\ UNCHANGED <<csv_pc, csv_result>>
           ELSE /\ csv_result' = [kind |-> "ParseError", column |-> <<>>,
                                  line |-> csv_line + 2, entries |-> <<>>]
                /\ csv_pc' = "returned"
                /\ UNCHANGED <<csv_out, csv_line>>
    /\ UNCHANGED <<csv_entries, csv_written, csv_header, csv_rows, nonCsvVars>>

\* line 128: Ok(entries)
ReadEnd ==
    /\ csv_pc = "records"
    /\ csv_line = Len(csv_rows)
    /\ csv_result' = [kind |-> "Ok", column |-> <<>>, line |-> 0, entries |-> csv_out]
    /\ csv_pc' = "returned"
    /\ UNCHANGED <<csv_entries, csv_written, csv_header, csv_rows, csv_line, csv_out,
                   nonCsvVars>>

NextCsv ==
    \/ WriteCsv
    \/ ReadHeaders
    \/ ReadRecord
    \/ ReadEnd

SpecCsv == InitCsv /\ [][NextCsv]_vars

(***************************************************************************)
(* deletion.rs, delete_directories.  The disk is a set of directories,     *)
(* each holding files of DelBytes[d] bytes in total; a locked directory    *)
(* cannot be removed.                                                      *)
(***************************************************************************)
DelPathPool == {<<"a">>, <<"a", "b">>, <<"c">>}
DelBytes == (<<"a">> :> 1) @@ (<<"a", "b">> :> 2) @@ (<<"c">> :> 4)
ParentClosed(D) == \A d \in D : Len(d) > 1 => Parent(d) \in D

InitDelete ==
    /\ ScanIdle
    /\ ClassifyIdle
    /\ CsvIdle
    /\ SessIdle
    /\ UiIdle
    /\ del_paths \in SeqsUpTo(DelPathPool, MaxDelPaths)
    /\ del_dirs \in {D \in SUBSET DelPathPool : ParentClosed(D)}
    /\ del_locked \in SUBSET del_dirs
    /\ del_idx = 0
    /\ successful = <<>>
    /\ failed = <<>>
    /\ total_freed_bytes = 0
    /\ del_result = "none"

\* a size that looks at the files directly in path only
DirSizeTopLevelOnly(path) == IF path \in del_dirs THEN DelBytes[path] ELSE 0

\* lines 391-401: the bytes of the files found under path
calculate_dir_size(path) == SumOver(DelBytes, {d \in del_dirs : IsPrefix(path, d)})

\* fs::remove_dir_all succeeds when path exists and nothing under it is locked
RemoveSucceeds(path) ==
    /\ path \in del_dirs
    /\ \A d \in del_locked : ~IsPrefix(path, d)

\* what a failed remove_dir_all may leave on disk: the locked directories
\* and their ancestors stay, anything else under path may already be gone
LeftAfterFailure(path) ==
    {D \in SUBSET del_dirs :
        /\ ParentClosed(D)
        /\ \A d \in del_dirs : ~IsPrefix(path, d) => d \in D
        /\ \A d \in del_locked : d \in D
        /\ path \in del_dirs => path \in D}

\* a loop that gives up at the first path it cannot remove
DeleteStepStopOnError ==
    /\ del_result = "none"
    /\ del_idx < Len(del_paths)
    /\ LET path == del_paths[del_idx + 1]
           size == calculate_dir_size(path)
       IN  IF RemoveSucceeds(path)
           THEN /\ del_dirs' = {d \in del_dirs : ~IsPrefix(path, d)}
                /\ successful' = Append(successful, path)
                /\ total_freed_bytes' = total_freed_bytes + size
                /\ del_idx' = del_idx + 1
                /\ UNCHANGED failed
           ELSE /\ del_dirs' \in LeftAfterFailure(path)
                /\ failed' = Append(failed, path)
                /\ del_idx' = Len(del_paths)
                /\ UNCHANGED <<successful, total_freed_bytes>>
    /\ UNCHANGED <<del_paths, del_locked, del_result, nonDelVars>>

\* lines 370-386: one iteration of the loop over paths
DeleteStep ==
    /\ del_result = "none"
    /\ del_idx < Len(del_paths)
    /\ LET path == del_paths[del_idx + 1]
           size == calculate_dir_size(path)
       IN  IF RemoveSucceeds(path)
           THEN /\ del_dirs' = {d \in del_dirs : ~IsPrefix(path, d)}
                /\ successful' = Append(successful, path)
                /\ total_freed_bytes' = total_freed_bytes + size
                /\ UNCHANGED failed
           ELSE /\ del_dirs' \in LeftAfterFailure(path)
                /\ failed' = Append(failed, path)
                /\ UNCHANGED <<successful, total_freed_bytes>>
    /\ del_idx' = del_idx + 1
    /\ UNCHANGED <<del_paths, del_locked, del_result, nonDelVars>>

\* line 388: Ok(report)
DeleteReturn ==
    /\ del_result = "none"
    /\ del_idx = Len(del_paths)
    /\ del_result' = "Ok"
    /\ UNCHANGED <<del_paths, del_dirs, del_locked, del_idx, successful, failed,
                   total_freed_bytes, nonDelVars>>

NextDelete ==
    \/ DeleteStep
    \/ DeleteReturn

SpecDelete == InitDelete /\ [][NextDelete]_vars

(***************************************************************************)
(* interactive.rs, InteractiveSession::new.                                *)
(***************************************************************************)
\* line 40
MIN_SIZE_BYTES == 1024 * 1024

\* cumulative sizes around the threshold
SessSizes == {0, 1048575, 1048576, 3145728}

\* entry i of the input is /dir<i>
SessInputs ==
    UNION {{[i \in 1..n |-> [path |-> <<"dir", i>>, cumulative_size_bytes |-> f[i]]]
            : f \in [1..n -> SessSizes]} : n \in 0..MaxSessEntries}

InitSession ==
    /\ ScanIdle
    /\ ClassifyIdle
    /\ CsvIdle
    /\ DelIdle
    /\ UiIdle
    /\ KeyIdle
    /\ sess_input \in SessInputs
    /\ sess_entries = <<>>
    /\ selected = {}
    /\ current_index = 0
    /\ scroll_offset = 0
    /\ sess_pc = "new"

\* a filter that drops an entry of exactly the minimum size
KeepsEntryAbove(e) == e.cumulative_size_bytes > MIN_SIZE_BYTES

\* line 43: the retain predicate
KeepsEntry(e) == e.cumulative_size_bytes >= MIN_SIZE_BYTES

\* lines 39-54: retain, stable sort by cumulative size descending, empty
\* selection, cursor and scroll at 0
SessionNew ==
    /\ sess_pc = "new"
    /\ sess_entries' = SortByCumulative(SelectSeq(sess_input, KeepsEntry))
    /\ selected' = {}
    /\ current_index' = 0
    /\ scroll_offset' = 0
    /\ sess_pc' = "ready"
    /\ UNCHANGED <<sess_input, nonSessVars>>

NextSession == SessionNew

SpecSession == InitSession /\ [][NextSession]_vars

(***************************************************************************)
(* interactive.rs, InteractiveSession::run, run_loop, render_list and the  *)
(* key handlers; main.rs, the interactive block of main; deletion.rs,      *)
(* confirm_deletion.  Indices are 0-based as in the source; entry i of     *)
(* the Vec is sess_entries[i + 1].                                         *)
(***************************************************************************)
MaxKeyEntries == 12
MaxKeys == 4

\* lines 302 and 306: the page size
PageStep == 10

\* usize::MAX, at the width of the integers of the model
UsizeMax == 2147483647

\* line 172: list heights, 0 for a list area of at most two rows
Heights == {0, 1, 3}

KeyEntryCounts == {1, 2, MaxKeyEntries}

\* no entries; one entry below the minimum size; n entries that all stay
KeyInputs ==
    {<<>>, <<[path |-> <<"dir", 1>>, cumulative_size_bytes |-> 0]>>}
        \cup {[i \in 1..n |-> [path |-> <<"dir", i>>, cumulative_size_bytes |-> MIN_SIZE_BYTES]]
                 : n \in KeyEntryCounts}

InitInteractive ==
    /\ ScanIdle
    /\ ClassifyIdle
    /\ CsvIdle
    /\ DelIdle
    /\ UiIdle
    /\ sess_input \in KeyInputs
    /\ sess_entries = <<>>
    /\ selected = {}
    /\ current_index = 0
    /\ scroll_offset = 0
    /\ sess_pc = "idle"
    /\ list_height = 0 /\ underflow = FALSE /\ keys_pressed = 0
    /\ last_key = "none" /\ prev_selected = {} /\ sess_result = NoRun
    /\ confirm_result = NoConfirm /\ delete_call = NoCall
    /\ main_pc = "start"

IoErr == [kind |-> "Err", paths |-> {}]

\* main.rs lines 109-116: nothing to display, or construct the session
MainLaunch ==
    /\ main_pc = "start"
    /\ IF sess_input = <<>>
       THEN main_pc' = "done" /\ UNCHANGED sess_pc
       ELSE main_pc' = "session" /\ sess_pc' = "new"
    /\ UNCHANGED <<sess_input, sess_entries, selected, current_index, scroll_offset,
                   list_height, underflow, keys_pressed, last_key, prev_selected,
                   sess_result, confirm_result, delete_call, nonKeyVars>>

\* lines 58-62: raw mode, alternate screen, Terminal::new, each with `?`
RunSetup ==
    /\ main_pc = "session" /\ sess_pc = "ready"
    /\ \/ sess_pc' = "draw" /\ UNCHANGED sess_result
       \/ sess_pc' = "returned" /\ sess_result' = IoErr
    /\ UNCHANGED <<sess_input, sess_entries, selected, current_index, scroll_offset,
                   list_height, underflow, keys_pressed, last_key, prev_selected,
                   main_pc, confirm_result, delete_call, nonKeyVars>>

SaturatingSub(a, b) == IF a >= b THEN a - b ELSE 0
\* a - b on usize without overflow checks
WrappingSub(a, b) == IF a >= b THEN a - b ELSE UsizeMax - (b - a) + 1

\* lines 175-179: the adjusted scroll offset
ScrollAdjust(h) ==
    IF current_index < scroll_offset
    THEN current_index
    ELSE IF current_index >= scroll_offset + h
         THEN SaturatingSub(current_index, WrappingSub(h, 1))
         ELSE scroll_offset

\* line 178 is reached and evaluates list_height - 1 with list_height = 0
SubtractsBelowZero(h) ==
    /\ ~(current_index < scroll_offset)
    /\ current_index >= scroll_offset + h
    /\ h < 1

\* line 76 with lines 171-179: one frame.  The subtraction below zero
\* panics in a build with overflow checks and wraps in one without.
Draw ==
    /\ main_pc = "session" /\ sess_pc = "draw"
    /\ \E h \in Heights :
         /\ list_height' = h
         /\ IF SubtractsBelowZero(h)
            THEN /\ underflow' = TRUE
                 /\ \/ sess_pc' = "panicked" /\ UNCHANGED scroll_offset
                    \/ sess_pc' = "poll" /\ scroll_offset' = ScrollAdjust(h)
            ELSE /\ sess_pc' = "poll"
                 /\ scroll_offset' = ScrollAdjust(h)
                 /\ UNCHANGED underflow
    /\ UNCHANGED <<sess_input, sess_entries, selected, current_index,
                   keys_pressed, last_key, prev_selected, sess_result,
                   main_pc, confirm_result, delete_call, nonKeyVars>>

\* lines 76, 78, 79: draw, poll or read fails; `?` leaves run_loop
LoopIoError ==
    /\ main_pc = "session" /\ sess_pc \in {"draw", "poll"}
    /\ sess_result' = IoErr
    /\ sess_pc' = "restore"
    /\ UNCHANGED <<sess_input, sess_entries, selected, current_index, scroll_offset,
                   list_height, underflow, keys_pressed, last_key, prev_selected,
                   main_pc, confirm_result, delete_call, nonKeyVars>>

\* lines 78-80, 117: no event, no key press, or a key without a handler
NoKey ==
    /\ main_pc = "session" /\ sess_pc = "poll"
    /\ sess_pc' = "draw"
    /\ UNCHANGED <<sess_input, sess_entries, selected, current_index, scroll_offset,
                   list_height, underflow, keys_pressed, last_key, prev_selected,
                   sess_result, main_pc, confirm_result, delete_call, nonKeyVars>>

\* lines 79-81: a key press that leaves the loop running
KeyPress(k) ==
    /\ main_pc = "session" /\ sess_pc = "poll"
    /\ keys_pressed < MaxKeys
    /\ keys_pressed' = keys_pressed + 1
    /\ last_key' = k
    /\ prev_selected' = selected
    /\ sess_pc' = "draw"
    /\ UNCHANGED <<sess_input, sess_entries, list_height, underflow, sess_result,
                   main_pc, confirm_result, delete_call, nonKeyVars>>

\* a toggle that only ever inserts
toggle_insert_only ==
    /\ selected' = IF current_index < Len(sess_entries)
                   THEN selected \cup {current_index}
                   ELSE selected
    /\ UNCHANGED <<current_index, scroll_offset>>

\* lines 269-277
toggle_selection ==
    /\ selected' = IF current_index < Len(sess_entries)
                   THEN IF current_index \in selected
                        THEN selected \ {current_index}
                        ELSE selected \cup {current_index}
                   ELSE selected
    /\ UNCHANGED <<current_index, scroll_offset>>

\* lines 279-283
select_all_visible ==
    /\ selected' = selected \cup {i \in 0..(Len(sess_entries) - 1) : TRUE}
    /\ UNCHANGED <<current_index, scroll_offset>>

\* lines 285-287
clear_all_selections ==
    /\ selected' = {}
    /\ UNCHANGED <<current_index, scroll_offset>>

\* lines 289-293
move_up ==
    /\ current_index' = IF current_index > 0 THEN current_index - 1 ELSE current_index
    /\ UNCHANGED <<selected, scroll_offset>>

\* lines 295-299
move_down ==
    /\ current_index' = IF current_index + 1 < Len(sess_entries)
                        THEN current_index + 1
                        ELSE current_index
    /\ UNCHANGED <<selected, scroll_offset>>

\* lines 301-303
page_up ==
    /\ current_index' = SaturatingSub(current_index, PageStep)
    /\ UNCHANGED <<selected, scroll_offset>>

Min(a, b) == IF a <= b THEN a ELSE b

\* a page down that is not clamped to the last entry
page_down_unclamped ==
    /\ current_index' = current_index + PageStep
    /\ UNCHANGED <<selected, scroll_offset>>

\* lines 305-307
page_down ==
    /\ current_index' = Min(current_index + PageStep, SaturatingSub(Len(sess_entries), 1))
    /\ UNCHANGED <<selected, scroll_offset>>

\* lines 309-312
go_to_top ==
    /\ current_index' = 0
    /\ scroll_offset' = 0
    /\ UNCHANGED selected

\* lines 314-316
go_to_bottom ==
    /\ current_index' = SaturatingSub(Len(sess_entries), 1)
    /\ UNCHANGED <<selected, scroll_offset>>

\* lines 85-87, 93-116: the handlers of run_loop
KeyToggle == KeyPress(" ") /\ toggle_selection
KeyUp == KeyPress("Up") /\ move_up
KeyDown == KeyPress("Down") /\ move_down
KeySelectAll == KeyPress("a") /\ select_all_visible
KeyClear == KeyPress("c") /\ clear_all_selections
KeyPageUp == KeyPress("PageUp") /\ page_up
KeyPageDown == KeyPress("PageDown") /\ page_down
KeyHome == KeyPress("Home") /\ go_to_top
KeyEnd == KeyPress("End") /\ go_to_bottom

\* lines 318-326; the Vec is built in the iteration order of the HashSet,
\* which is unspecified, and is kept as the set of its elements
get_selected_paths ==
    {sess_entries[i + 1].path : i \in {j \in selected : j < Len(sess_entries)}}

\* lines 82-84: q or Esc leaves the loop with an empty Vec
KeyQuit ==
    /\ main_pc = "session" /\ sess_pc = "poll"
    /\ last_key' = "q"
    /\ prev_selected' = selected
    /\ sess_result' = [kind |-> "Ok", paths |-> {}]
    /\ sess_pc' = "restore"
    /\ UNCHANGED <<sess_input, sess_entries, selected, current_index, scroll_offset,
                   list_height, underflow, keys_pressed,
                   main_pc, confirm_result, delete_call, nonKeyVars>>

\* lines 88-92: d leaves the loop only with a non-empty selection
KeyDelete ==
    /\ main_pc = "session" /\ sess_pc = "poll"
    /\ last_key' = "d"
    /\ prev_selected' = selected
    /\ IF selected # {}
       THEN /\ sess_result' = [kind |-> "Ok", paths |-> get_selected_paths]
            /\ sess_pc' = "restore"
       ELSE /\ sess_pc' = "draw"
            /\ UNCHANGED sess_result
    /\ UNCHANGED <<sess_input, sess_entries, selected, current_index, scroll_offset,
                   list_height, underflow, keys_pressed,
                   main_pc, confirm_result, delete_call, nonKeyVars>>

\* lines 67-71: the restore calls, each with `?`, then the loop's result
RestoreSession ==
    /\ main_pc = "session" /\ sess_pc = "restore"
    /\ \/ UNCHANGED sess_result
       \/ sess_result' = IoErr
    /\ sess_pc' = "returned"
    /\ UNCHANGED <<sess_input, sess_entries, selected, current_index, scroll_offset,
                   list_height, underflow, keys_pressed, last_key, prev_selected,
                   main_pc, confirm_result, delete_call, nonKeyVars>>

\* main.rs lines 118-124, 150-153
MainMatch ==
    /\ main_pc = "session" /\ sess_pc = "returned"
    /\ main_pc' = IF sess_result.kind = "Err" THEN "exit1"
                  ELSE IF sess_result.paths = {} THEN "done"
                  ELSE "confirm"
    /\ UNCHANGED <<sessVars, list_height, underflow, keys_pressed, last_key,
                   prev_selected, sess_result, confirm_result, delete_call, nonKeyVars>>

\* deletion.rs lines 191-222: empty list, terminal setup or the fallback
ConfirmSetup ==
    /\ main_pc = "confirm"
    /\ IF sess_result.paths = {}
       THEN /\ confirm_result' = [value |-> FALSE, via |-> "empty"]
            /\ main_pc' = "confirmed"
       ELSE /\ main_pc' \in {"confirm_ui", "fallback"}
            /\ UNCHANGED confirm_result
    /\ UNCHANGED <<sessVars, list_height, underflow, keys_pressed, last_key,
                   prev_selected, sess_result, delete_call, nonKeyVars>>

\* deletion.rs lines 234-250: true only for the line "yes"
FallbackConfirm ==
    /\ main_pc = "fallback"
    /\ \E input \in {"yes", "y", ""} :
         confirm_result' = [value |-> (input = "yes"), via |-> "stdin"]
    /\ main_pc' = "confirmed"
    /\ UNCHANGED <<sessVars, list_height, underflow, keys_pressed, last_key,
                   prev_selected, sess_result, delete_call, nonKeyVars>>

\* deletion.rs lines 259-272: what run_confirmation_ui returns
RunConfirmationUi(event) ==
    CASE event = "y" -> "Ok(true)"
      [] event = "n" -> "Ok(false)"
      [] event = "io_error" -> "Err"

\* a confirmation that takes an I/O error as consent
UnwrapOrTrue(r) == r # "Ok(false)"

\* deletion.rs line 231: result.unwrap_or(false)
UnwrapOrFalse(r) == r = "Ok(true)"

\* deletion.rs lines 224-231
ConfirmUi ==
    /\ main_pc = "confirm_ui"
    /\ \E event \in {"y", "n", "io_error"} :
         confirm_result' = [value |-> UnwrapOrFalse(RunConfirmationUi(event)), via |-> event]
    /\ main_pc' = "confirmed"
    /\ UNCHANGED <<sessVars, list_height, underflow, keys_pressed, last_key,
                   prev_selected, sess_result, delete_call, nonKeyVars>>

\* main.rs lines 126-149: delete_directories is called, or "Deletion cancelled."
MainConfirmed ==
    /\ main_pc = "confirmed"
    /\ IF confirm_result.value
       THEN delete_call' = [called |-> TRUE, paths |-> sess_result.paths]
       ELSE UNCHANGED delete_call
    /\ main_pc' = "done"
    /\ UNCHANGED <<sessVars, list_height, underflow, keys_pressed, last_key,
                   prev_selected, sess_result, confirm_result, nonKeyVars>>

NextInteractive ==
    \/ MainLaunch
    \/ SessionNew
    \/ RunSetup
    \/ Draw
    \/ LoopIoError
    \/ NoKey
    \/ KeyToggle
    \/ KeyUp
    \/ KeyDown
    \/ KeySelectAll
    \/ KeyClear
    \/ KeyPageUp
    \/ KeyPageDown
    \/ KeyHome
    \/ KeyEnd
    \/ KeyQuit
    \/ KeyDelete
    \/ RestoreSession
    \/ MainMatch
    \/ ConfirmSetup
    \/ FallbackConfirm
    \/ ConfirmUi
    \/ MainConfirmed

SpecInteractive == InitInteractive /\ [][NextInteractive]_vars

(***************************************************************************)
(* scan_ui.rs, scan_with_progress.  The worker thread runs scan_directory  *)
(* (the actions of Next); the calling thread sets the terminal up, polls   *)
(* and draws, restores the terminal and joins.  Every terminal operation   *)
(* may fail with an I/O error, which the `?` after it returns.             *)
(***************************************************************************)
\* line 52: spinner_frames.len()
SpinnerFrames == 10

InitUi ==
    /\ root_path = <<"w">>
    /\ temp_only = FALSE
    /\ \/ fsDirs \in TreesUpTo(root_path, MaxUiDirs)
       \/ fsDirs = {}
    /\ fsFiles \in FileSetsUpTo(fsDirs, 1)
    /\ denied = {}
    /\ unreadable = {}
    /\ pc = "start"
    /\ visited = {}
    /\ dir_stats = <<>>
    /\ temp_dirs_to_scan = <<>>
    /\ temp_idx = 0
    /\ cumulative_stats = <<>>
    /\ entries = <<>>
    /\ result = "none"
    /\ ClassifyIdle
    /\ CsvIdle
    /\ DelIdle
    /\ SessIdle
    /\ ui_pc = "setup"
    /\ frame_idx = 0
    /\ progress = ScanProgressNew
    /\ mutex = "free"
    /\ shown = ScanProgressNew
    /\ ui_result = [kind |-> "none", entries |-> <<>>]

IoError == [kind |-> "IoError", entries |-> <<>>]

\* a handle that never reports the worker as finished
IsFinishedNever == FALSE

\* line 56: scan_handle.is_finished()
is_finished == pc = "done"

\* lines 45-49: enable_raw_mode()?, execute!(EnterAlternateScreen)?,
\* Terminal::new(backend)?
SetupTerminal ==
    /\ ui_pc = "setup"
    /\ \E ok \in BOOLEAN :
         IF ok THEN ui_pc' = "loop" /\ ui_result' = ui_result
         ELSE ui_pc' = "returned" /\ ui_result' = IoError
    /\ UNCHANGED <<frame_idx, progress, mutex, shown, nonUiVars>>

\* lines 55-58: top of the polling loop
LoopCheck ==
    /\ ui_pc = "loop"
    /\ ui_pc' = IF is_finished THEN "restore" ELSE "draw"
    /\ UNCHANGED <<frame_idx, progress, mutex, shown, ui_result, nonUiVars>>

\* lines 60-61, 80: terminal.draw calls render_scan_progress, which locks
\* the mutex and reads the record
DrawLock ==
    /\ ui_pc = "draw"
    /\ mutex = "free"
    /\ mutex' = "ui"
    /\ shown' = progress
    /\ ui_pc' = "drawing"
    /\ UNCHANGED <<frame_idx, progress, ui_result, nonUiVars>>

\* lines 62-64, 145: the guard is dropped, the frame is flushed (`?`), the
\* spinner advances
DrawDone ==
    /\ ui_pc = "drawing"
    /\ mutex' = "free"
    /\ \E ok \in BOOLEAN :
         IF ok
         THEN /\ frame_idx' = (frame_idx + 1) % SpinnerFrames
              /\ ui_pc' = "sleep"
              /\ ui_result' = ui_result
         ELSE /\ frame_idx' = frame_idx
              /\ ui_pc' = "returned"
              /\ ui_result' = IoError
    /\ UNCHANGED <<progress, shown, nonUiVars>>

\* line 65: thread::sleep(80 ms)
Sleep ==
    /\ ui_pc = "sleep"
    /\ ui_pc' = "loop"
    /\ UNCHANGED <<frame_idx, progress, mutex, shown, ui_result, nonUiVars>>

\* lines 69-71: disable_raw_mode()?, execute!(LeaveAlternateScreen)?,
\* show_cursor()?
RestoreTerminal ==
    /\ ui_pc = "restore"
    /\ \E ok \in BOOLEAN :
         IF ok THEN ui_pc' = "join" /\ ui_result' = ui_result
         ELSE ui_pc' = "returned" /\ ui_result' = IoError
    /\ UNCHANGED <<frame_idx, progress, mutex, shown, nonUiVars>>

\* lines 74-76: join the worker and return its result
Join ==
    /\ ui_pc = "join"
    /\ pc = "done"
    /\ ui_result' = [kind |-> result, entries |-> entries]
    /\ ui_pc' = "returned"
    /\ UNCHANGED <<frame_idx, progress, mutex, shown, nonUiVars>>

UiNext ==
    \/ SetupTerminal
    \/ LoopCheck
    \/ DrawLock
    \/ DrawDone
    \/ Sleep
    \/ RestoreTerminal
    \/ Join

NextUi ==
    \/ Start
    \/ Pass1Dir
    \/ Pass1File
    \/ Pass1Exit
    \/ Pass2Step
    \/ Pass2Exit
    \/ Pass3Step
    \/ Pass3Exit
    \/ Finalize
    \/ SetupTerminal
    \/ LoopCheck
    \/ DrawLock
    \/ DrawDone
    \/ Sleep
    \/ RestoreTerminal
    \/ Join

\* both threads keep being scheduled
SpecUi == InitUi /\ [][NextUi]_vars /\ WF_vars(Next) /\ WF_vars(UiNext)

(***************************************************************************)
(* The claims.                                                             *)
(***************************************************************************)
ScanOk == pc = "done" /\ result = "Ok"
EntryIdx == 1..Len(entries)
\* result entries whose immediate parent path is the path of entry i
ChildIdx(i) ==
    {j \in EntryIdx : HasParent(entries[j].path) /\ Parent(entries[j].path) = entries[i].path}
IsCatalogTemp(path) == HasFileName(path) /\ FileName(path) \in TempCatalog

\* C1: with temp_only = false, every result entry's cumulative size (file
\* count) is its direct size (file count) plus the cumulative sizes (file
\* counts) of the result entries whose immediate parent is that entry.
C1_CumulativeLaw ==
    (ScanOk /\ ~temp_only) =>
        \A i \in EntryIdx :
            /\ entries[i].cumulative_size_bytes =
                 entries[i].size_bytes
                 + SumOver([j \in EntryIdx |-> entries[j].cumulative_size_bytes], ChildIdx(i))
            /\ entries[i].cumulative_file_count =
                 entries[i].file_count
                 + SumOver([j \in EntryIdx |-> entries[j].cumulative_file_count], ChildIdx(i))

\* an entry with files of its own and two children that carry bytes
C1_Witness ==
    /\ ScanOk /\ ~temp_only
    /\ \E i \in EntryIdx :
         /\ entries[i].size_bytes > 0
         /\ Cardinality({j \in ChildIdx(i) : entries[j].cumulative_size_bytes > 0}) >= 2

\* C2: with temp_only = false, every entry's cumulative size and file count
\* are the total size and number of the regular files in its subtree, each
\* file counted once, files under temp descendants included.
C2_SubtreeTotals ==
    (ScanOk /\ ~temp_only) =>
        \A i \in EntryIdx :
            /\ entries[i].cumulative_size_bytes =
                 SumOver(fsFiles, FilesBeneath(entries[i].path))
            /\ entries[i].cumulative_file_count =
                 Cardinality(FilesBeneath(entries[i].path))

\* C3: every Temp entry has size_bytes = cumulative_size_bytes and
\* file_count = cumulative_file_count, nested temp directories included.
C3_TempDirectEqualsCumulative ==
    ScanOk =>
        \A i \in EntryIdx :
            entries[i].entry_type = "Temp" =>
                /\ entries[i].size_bytes = entries[i].cumulative_size_bytes
                /\ entries[i].file_count = entries[i].cumulative_file_count

\* C4: every entry's cumulative size and file count are at least its direct
\* size and file count.
C4_CumulativeAtLeastDirect ==
    ScanOk =>
        \A i \in EntryIdx :
            /\ entries[i].cumulative_size_bytes >= entries[i].size_bytes
            /\ entries[i].cumulative_file_count >= entries[i].file_count

\* an entry with direct files whose cumulative size is strictly larger
C4_Witness ==
    /\ ScanOk
    /\ \E i \in EntryIdx :
         /\ entries[i].size_bytes > 0
         /\ entries[i].cumulative_size_bytes > entries[i].size_bytes
    /\ \E i \in EntryIdx :
         /\ entries[i].size_bytes > 0
         /\ entries[i].cumulative_size_bytes = entries[i].size_bytes

\* C5 as claimed: every catalog name classifies Temporary, and a catalog name
\* with any non-empty prefix or any non-empty suffix classifies Normal.
C5_AnyAffixIsNormal ==
    verdict # "none" =>
        IF prefix = "" /\ suffix = "" THEN verdict = "Temporary"
        ELSE verdict = "Normal"

\* C5 as amended: every catalog name classifies Temporary, and a catalog name
\* with a non-empty prefix or suffix classifies Normal unless the resulting
\* string is itself a name of the catalog.
C5_AffixIsNormalUnlessCatalogName ==
    verdict # "none" =>
        IF prefix = "" /\ suffix = "" THEN verdict = "Temporary"
        ELSE (verdict = "Normal" <=> ClassifiedName \notin TempCatalog)

\* an affixed name classified Normal (the prefix "x" before "dist")
C5_Witness ==
    /\ verdict = "Normal"
    /\ prefix = "x" /\ cat_name = "dist" /\ suffix = ""

\* C6: an entry is Temp exactly when the last component of its own path is a
\* name of the catalog, whatever its contents, its ancestors or the passes
\* that wrote it.
C6_TypeFromOwnName ==
    ScanOk =>
        \A i \in EntryIdx :
            entries[i].entry_type = "Temp" <=> IsCatalogTemp(entries[i].path)

\* a Normal entry with a Temp parent, and a Temp entry holding files
C6_Witness ==
    /\ ScanOk
    /\ \E i \in EntryIdx :
         /\ entries[i].entry_type = "Normal"
         /\ IsCatalogTemp(Parent(entries[i].path))
         /\ FilesBeneath(entries[i].path) # {}
    /\ \E i \in EntryIdx :
         /\ entries[i].entry_type = "Temp"
         /\ entries[i].file_count > 0

\* C7: with temp_only = false the result holds exactly one entry per
\* directory at or beneath root_path (all of them visited), directories
\* inside temp directories included, and always one for root_path.
C7_OneEntryPerDirectory ==
    (ScanOk /\ ~temp_only) =>
        /\ \A i, j \in EntryIdx : entries[i].path = entries[j].path => i = j
        /\ {entries[i].path : i \in EntryIdx} = fsDirs
        /\ fsDirs \subseteq visited
        /\ \E i \in EntryIdx : entries[i].path = root_path

\* a root without direct files, and a directory inside a temp directory
C7_Witness ==
    /\ ScanOk /\ ~temp_only
    /\ \E i \in EntryIdx : entries[i].path = root_path /\ entries[i].file_count = 0
    /\ \E i \in EntryIdx :
         /\ entries[i].path # root_path
         /\ IsCatalogTemp(Parent(entries[i].path))
    /\ Len(entries) = MaxDirs + 1

\* number of entries the same scan returns without the filter: one per key
\* of dir_stats
UnfilteredLen == Cardinality(DOMAIN dir_stats)

\* C8: with temp_only = true every returned entry is Temp, and there are at
\* most as many entries as the unfiltered scan of the same tree returns.
C8_TempOnlyFilter ==
    (ScanOk /\ temp_only) =>
        /\ \A i \in EntryIdx : entries[i].entry_type = "Temp"
        /\ Len(entries) <= UnfilteredLen
        /\ Len(entries) <= Cardinality(fsDirs)

\* a filtered scan that kept some entries and dropped others
C8_Witness ==
    /\ ScanOk /\ temp_only
    /\ Len(entries) >= 1
    /\ Len(entries) < UnfilteredLen

\* C9: the returned sequence is ordered by cumulative_size_bytes,
\* non-increasing, with or without the filter.
C9_SortedDescending ==
    ScanOk =>
        \A i \in EntryIdx :
            i < Len(entries) =>
                entries[i].cumulative_size_bytes >= entries[i + 1].cumulative_size_bytes

\* a filtered result of at least two entries of different cumulative size
C9_Witness ==
    /\ ScanOk /\ temp_only
    /\ Len(entries) >= 2
    /\ entries[1].cumulative_size_bytes > entries[Len(entries)].cumulative_size_bytes

\* C10: when root_path does not exist, the first step returns PathNotFound
\* and nothing is walked, registered or listed.
C10_PathNotFoundImmediately ==
    (root_path \notin fsDirs /\ pc # "start") =>
        /\ pc = "done"
        /\ result = "PathNotFound"
        /\ visited = {}
        /\ dir_stats = <<>>
        /\ temp_dirs_to_scan = <<>>
        /\ cumulative_stats = <<>>
        /\ entries = <<>>

\* a scan of a missing root that has returned
C10_Witness ==
    /\ root_path \notin fsDirs
    /\ pc = "done"
    /\ result = "PathNotFound"

\* a file whose metadata cannot be read, or that lies beneath a directory
\* the walk cannot list
Failing(f) == f \in unreadable \/ \E d \in denied : IsPrefix(d, Parent(f))
Surviving(S) == {f \in S : ~Failing(f)}
HasTempAncestor(path) ==
    \E k \in 1..(Len(path) - 1) : SubSeq(path, 1, k)[k] \in TempCatalog

CsvReturned == csv_pc = "returned"
CsvOk == CsvReturned /\ csv_result.kind = "Ok"

\* C12: write_csv followed by read_csv of the same file returns the same
\* entries, in the same order, every field equal to the original.
C12_RoundTrip ==
    (CsvReturned /\ csv_written) =>
        /\ csv_result.kind = "Ok"
        /\ csv_result.entries = csv_entries

\* the round trip of entries whose paths are valid UTF-8
C12_RoundTripValidPaths ==
    (CsvReturned /\ csv_written
        /\ \A i \in 1..Len(csv_entries) :
             \A k \in 1..Len(csv_entries[i].path) : csv_entries[i].path[k] # InvalidByte) =>
        /\ csv_result.kind = "Ok"
        /\ csv_result.entries = csv_entries

C12_Witness ==
    /\ CsvOk /\ csv_written
    /\ Len(csv_entries) = 2
    /\ csv_result.entries = csv_entries
    /\ csv_entries[1].size_bytes = 0
    /\ csv_entries[2].size_bytes = 20

\* C13: every entry loaded from a file in the old 4-column schema has
\* cumulative_file_count = file_count and cumulative_size_bytes = size_bytes.
C13_OldSchemaCumulativeIsDirect ==
    (CsvOk /\ csv_header = OldHeader) =>
        /\ Len(csv_result.entries) = Len(csv_rows)
        /\ \A i \in 1..Len(csv_result.entries) :
             LET e == csv_result.entries[i] IN
             /\ e.file_count = ParseU64(csv_rows[i][2]).val
             /\ e.size_bytes = ParseU64(csv_rows[i][3]).val
             /\ e.cumulative_file_count = e.file_count
             /\ e.cumulative_size_bytes = e.size_bytes

C13_Witness ==
    /\ CsvOk /\ csv_header = OldHeader
    /\ Len(csv_result.entries) = 2
    /\ csv_result.entries[1].cumulative_file_count = 7
    /\ csv_result.entries[1].cumulative_size_bytes = 9

\* C14: a header that lacks one of path, files, size_bytes, type makes
\* read_csv return MissingColumn naming a lacking column (the first in that
\* order), with no data record read, whatever the records hold.
C14_MissingColumnFirst ==
    LET present(col) == \E i \in 1..Len(csv_header) : csv_header[i] = col
        lacking == {col \in {PathCol, FilesCol, SizeCol, TypeCol} : ~present(col)}
    IN  (CsvReturned /\ lacking # {}) =>
            /\ csv_result.kind = "MissingColumn"
            /\ csv_result.column \in lacking
            /\ \A j \in 1..4 : required[j] = csv_result.column =>
                   \A k \in 1..(j - 1) : present(required[k])
            /\ csv_line = 0
            /\ csv_out = <<>>
            /\ csv_result.entries = <<>>

\* a header lacking files and size_bytes, in front of two records
C14_Witness ==
    /\ CsvReturned
    /\ csv_header = <<PathCol, TypeCol>>
    /\ Len(csv_rows) = 2
    /\ csv_result.kind = "MissingColumn"
    /\ csv_result.column = FilesCol

\* the value a record holds in the column the header names col
FieldOf(record, col) ==
    record[CHOOSE i \in 1..Len(csv_header) : csv_header[i] = col]
BadRow(record) ==
    \/ \E col \in {FilesCol, SizeCol, CumFilesCol, CumSizeCol} :
         /\ \E i \in 1..Len(csv_header) : csv_header[i] = col
         /\ ~ParseU64(FieldOf(record, col)).ok
    \/ FieldOf(record, TypeCol) \notin {TempLit, NormalLit}

\* C15: under a header holding the four required columns, with every
\* record as long as the header, a record whose numeric field does not
\* parse or whose type field is neither temp nor normal makes read_csv
\* return ParseError at line i+2 for the first such record i (0-based),
\* with no entries.
C15_ParseErrorAtFirstBadRow ==
    (/\ CsvReturned
     /\ \A col \in {PathCol, FilesCol, SizeCol, TypeCol} :
            \E i \in 1..Len(csv_header) : csv_header[i] = col
     /\ \A i \in 1..Len(csv_rows) : Len(csv_rows[i]) = Len(csv_header)
     /\ \E i \in 1..Len(csv_rows) : BadRow(csv_rows[i])) =>
        /\ csv_result.kind = "ParseError"
        /\ csv_result.entries = <<>>
        /\ LET first == CHOOSE i \in 1..Len(csv_rows) :
                           /\ BadRow(csv_rows[i])
                           /\ \A k \in 1..(i - 1) : ~BadRow(csv_rows[k])
           IN  csv_result.line = (first - 1) + 2

\* the same statement for the two schemas read_csv is written for
C15_ParseErrorInSchemaOrder ==
    (/\ CsvReturned
     /\ csv_header \in {NewHeader, OldHeader}
     /\ \A i \in 1..Len(csv_rows) : Len(csv_rows[i]) = Len(csv_header)
     /\ \E i \in 1..Len(csv_rows) : BadRow(csv_rows[i])) =>
        /\ csv_result.kind = "ParseError"
        /\ csv_result.entries = <<>>
        /\ LET first == CHOOSE i \in 1..Len(csv_rows) :
                           /\ BadRow(csv_rows[i])
                           /\ \A k \in 1..(i - 1) : ~BadRow(csv_rows[k])
           IN  csv_result.line = (first - 1) + 2

Occurrences(seq, x) == Cardinality({i \in 1..Len(seq) : seq[i] = x})

\* C16: delete_directories returns Ok with every occurrence of an input
\* path in exactly one of successful and failed, and every path is
\* attempted: a failure does not stop the later ones.
C16_EveryPathReported ==
    /\ del_result \in {"idle", "none", "Ok"}
    /\ del_result = "Ok" =>
         /\ del_idx = Len(del_paths)
         /\ Len(successful) + Len(failed) = Len(del_paths)
         /\ \A q \in DelPathPool :
              Occurrences(successful, q) + Occurrences(failed, q)
                  = Occurrences(del_paths, q)
    /\ del_result = "none" =>
         /\ Len(successful) + Len(failed) = del_idx
         /\ \A i \in 1..del_idx :
              \/ \E k \in 1..Len(successful) : successful[k] = del_paths[i]
              \/ \E k \in 1..Len(failed) : failed[k] = del_paths[i]

\* a locked first path fails and the second path is still removed
C16_Witness ==
    /\ del_result = "Ok"
    /\ Len(del_paths) = 2
    /\ failed = <<del_paths[1]>>
    /\ successful = <<del_paths[2]>>
    /\ del_paths[2] \notin del_dirs

\* C17: after InteractiveSession::new the session holds exactly the input
\* entries of at least 1,048,576 cumulative bytes, each once, ordered by
\* cumulative size non-increasing, nothing selected, cursor at index 0.
C17_NewFiltersAndSorts ==
    sess_pc = "ready" =>
        /\ \A i \in 1..Len(sess_input) :
             Cardinality({k \in 1..Len(sess_entries) : sess_entries[k] = sess_input[i]})
                 = IF sess_input[i].cumulative_size_bytes >= 1048576 THEN 1 ELSE 0
        /\ \A k \in 1..Len(sess_entries) :
             \E i \in 1..Len(sess_input) : sess_input[i] = sess_entries[k]
        /\ \A k \in 1..(Len(sess_entries) - 1) :
             sess_entries[k].cumulative_size_bytes
                 >= sess_entries[k + 1].cumulative_size_bytes
        /\ selected = {}
        /\ current_index = 0

\* an input out of order holding an entry one byte short, one of exactly
\* 1 MiB and a larger one
C17_Witness ==
    /\ sess_pc = "ready"
    /\ Len(sess_input) = 3
    /\ sess_input[1].cumulative_size_bytes = 1048576
    /\ sess_input[2].cumulative_size_bytes = 1048575
    /\ sess_input[3].cumulative_size_bytes = 3145728
    /\ sess_entries = <<sess_input[3], sess_input[1]>>

UiReturned == ui_pc = "returned"
WorkerResult == [kind |-> result, entries |-> entries]

\* C18: once the worker's scan has finished, scan_with_progress returns
\* exactly the worker's result.
C18_ReturnsWorkerResult ==
    (UiReturned /\ pc = "done") => ui_result = WorkerResult

\* C18, amended: the worker can always take its next step and so can the
\* UI thread, whatever the other is doing; a return that is not a terminal
\* I/O error happens after the scan finished and carries exactly the
\* worker's result; once the scan has finished scan_with_progress returns.
C18_NoWaitingAndReturn ==
    /\ [](pc # "done" => ENABLED <<Next>>_vars)
    /\ [](~UiReturned => ENABLED <<UiNext>>_vars)
    /\ []((UiReturned /\ ui_result # IoError) =>
             (pc = "done" /\ ui_result = WorkerResult))
    /\ (pc = "done") ~> UiReturned

\* the loop drew at least one frame, left when the worker finished, and
\* the entries of the scan were returned
C18_Witness ==
    /\ UiReturned
    /\ frame_idx > 0
    /\ ui_result.kind = "Ok"
    /\ Len(ui_result.entries) = 2
    /\ ui_result = WorkerResult

\* C19: the shared ScanProgress record is written by the worker, so that
\* what the UI reads are the files and directories visited so far (here:
\* at the latest when the first walk is over, the record holds the numbers
\* of files and directories it visited); the UI shows what it read.
C19_ProgressTracksWorker ==
    /\ pc \in {"pass2", "pass3", "collect", "done"} =>
         /\ progress.dirs_scanned = Cardinality(visited \cap fsDirs)
         /\ progress.files_scanned = Cardinality(visited \cap DOMAIN fsFiles)
    /\ mutex = "ui" => shown = progress

\* the half of C19 that holds: no step of the UI thread changes the record
C19_UiNeverWrites == [][UiNext => UNCHANGED progress]_vars

\* a directory of the scan with a catalog-named directory above it, from
\* the scan root downwards
InsideTempDir(path) ==
    \E k \in Len(root_path)..(Len(path) - 1) : k >= 1 /\ path[k] \in TempCatalog

\* C20: a regular file with no temporary ancestor adds 1 and its size to
\* the direct stats of its immediate parent and changes no other
\* directory's direct stats; so every Normal entry that is not inside a
\* temp directory has as file_count and size_bytes the number and total
\* size of the regular files directly in it.
C20_DirectStatsOfParentOnly ==
    /\ [](ScanOk =>
            \A i \in EntryIdx :
                (entries[i].entry_type = "Normal" /\ ~InsideTempDir(entries[i].path)) =>
                    LET direct == {f \in DOMAIN fsFiles : Parent(f) = entries[i].path}
                    IN  /\ entries[i].file_count = Cardinality(direct)
                        /\ entries[i].size_bytes = SumOver(fsFiles, direct))
    /\ [][pc = "pass1" =>
            \A f \in (visited' \ visited) \cap DOMAIN fsFiles :
                /\ \A q \in DOMAIN dir_stats' :
                       q # Parent(f) => (q \in DOMAIN dir_stats /\ dir_stats'[q] = dir_stats[q])
                /\ (f[Len(f) - 1] \notin TempCatalog /\ ~InsideTempDir(Parent(f))) =>
                       /\ dir_stats'[Parent(f)].files = dir_stats[Parent(f)].files + 1
                       /\ dir_stats'[Parent(f)].size = dir_stats[Parent(f)].size + fsFiles[f]]_vars

\* a Normal directory below a Normal root holds the only file: the file is
\* in its direct stats and not in the root's
C20_Witness ==
    /\ ScanOk
    /\ \E i, j \in EntryIdx :
         /\ entries[j].path = root_path
         /\ entries[j].entry_type = "Normal"
         /\ entries[j].file_count = 0
         /\ entries[i].path = Append(root_path, "src")
         /\ entries[i].file_count = 1
         /\ entries[i].size_bytes = 1

\* the regular files at any depth under a directory
RegularFilesUnder(d) ==
    {f \in DOMAIN fsFiles : Len(f) > Len(d) /\ SubSeq(f, 1, Len(d)) = d}
RegularFilesIn(d) == {f \in DOMAIN fsFiles : SubSeq(f, 1, Len(f) - 1) = d}
\* a catalog-named directory strictly between the scan root and path
TempStrictlyBelowRoot(path) ==
    \E k \in (Len(root_path) + 1)..(Len(path) - 1) : path[k] \in TempCatalog

\* C21: the name of root_path (and of anything above it) never makes Pass 1
\* skip a file: every Normal entry with no catalog-named directory strictly
\* between it and the scan root has the files located directly in it as
\* its direct stats, also when the scan root itself has a catalog name.
C21_RootNameNeverSkips ==
    ScanOk =>
        \A i \in EntryIdx :
            (entries[i].entry_type = "Normal" /\ ~TempStrictlyBelowRoot(entries[i].path)) =>
                /\ entries[i].file_count = Cardinality(RegularFilesIn(entries[i].path))
                /\ entries[i].size_bytes = SumOver(fsFiles, RegularFilesIn(entries[i].path))

\* the part of C21 that holds: names above root_path are never examined
C21_NamesAboveRootIgnored ==
    (ScanOk /\ root_path[Len(root_path)] \notin TempCatalog) =>
        \A i \in EntryIdx :
            (entries[i].entry_type = "Normal" /\ ~TempStrictlyBelowRoot(entries[i].path)) =>
                /\ entries[i].file_count = Cardinality(RegularFilesIn(entries[i].path))
                /\ entries[i].size_bytes = SumOver(fsFiles, RegularFilesIn(entries[i].path))

\* C22: every Temp entry, at any depth and inside another temp directory
\* or not, has as file_count and size_bytes the number and total size of
\* all regular files strictly beneath it.
C22_TempHoldsWholeSubtree ==
    ScanOk =>
        \A i \in EntryIdx :
            entries[i].entry_type = "Temp" =>
                /\ entries[i].file_count = Cardinality(RegularFilesUnder(entries[i].path))
                /\ entries[i].size_bytes = SumOver(fsFiles, RegularFilesUnder(entries[i].path))

\* a temp directory inside a temp directory whose only file lies one
\* level further down
C22_Witness ==
    /\ ScanOk
    /\ \E i, j \in EntryIdx :
         /\ entries[i].entry_type = "Temp"
         /\ entries[j].entry_type = "Temp"
         /\ entries[i].path = Parent(entries[j].path)
         /\ entries[j].file_count = 1
         /\ RegularFilesIn(entries[j].path) = {}

\* C23: when Pass 3 computes the cumulative total of a directory, the
\* total of every registered directory whose immediate parent it is has
\* already been stored.
C23_ChildrenStoredFirst ==
    [][pc = "pass3" =>
          \A d \in DOMAIN cumulative_stats' \ DOMAIN cumulative_stats :
              \A c \in DOMAIN dir_stats :
                  (Len(c) = Len(d) + 1 /\ SubSeq(c, 1, Len(d)) = d) =>
                      c \in DOMAIN cumulative_stats]_vars

\* Pass 3 has stored the total of a directory that has two registered
\* children
C23_Witness ==
    /\ pc = "pass3"
    /\ \E d \in DOMAIN cumulative_stats :
         Cardinality({c \in DOMAIN dir_stats : Len(c) = Len(d) + 1 /\ SubSeq(c, 1, Len(d)) = d}) = 2

\* the catalog-named directories strictly beneath a directory
TempDirsUnder(d) ==
    {u \in fsDirs : Len(u) > Len(d) /\ SubSeq(u, 1, Len(d)) = d /\ u[Len(u)] \in TempCatalog}

\* C24: a Temp entry T with exactly one temp directory U beneath it, at
\* any depth, has as direct stats the totals of all files under T and as
\* cumulative stats those totals plus the totals of all files under U.
C24_InnerTempCountedTwice ==
    ScanOk =>
        \A i \in EntryIdx :
            (entries[i].entry_type = "Temp"
                 /\ Cardinality(TempDirsUnder(entries[i].path)) = 1) =>
                LET T == entries[i].path
                    U == CHOOSE u \in TempDirsUnder(T) : TRUE
                IN  /\ entries[i].size_bytes = SumOver(fsFiles, RegularFilesUnder(T))
                    /\ entries[i].file_count = Cardinality(RegularFilesUnder(T))
                    /\ entries[i].cumulative_size_bytes =
                         SumOver(fsFiles, RegularFilesUnder(T))
                             + SumOver(fsFiles, RegularFilesUnder(U))
                    /\ entries[i].cumulative_file_count =
                         Cardinality(RegularFilesUnder(T))
                             + Cardinality(RegularFilesUnder(U))

\* T holds a Normal directory that holds U; U holds a file and T's
\* cumulative count is twice its direct count
C24_Witness ==
    /\ ScanOk
    /\ \E i \in EntryIdx :
         /\ entries[i].entry_type = "Temp"
         /\ \E u \in TempDirsUnder(entries[i].path) :
              /\ TempDirsUnder(entries[i].path) = {u}
              /\ Len(u) = Len(entries[i].path) + 2
              /\ RegularFilesUnder(u) # {}
         /\ entries[i].file_count = 1
         /\ entries[i].cumulative_file_count = 2

\* a step of run_loop that handled a press of key k and kept the loop running
Handled(k) == keys_pressed' = keys_pressed + 1 /\ last_key' = k

\* C25: a toggle flips the membership of the index under the cursor and
\* of no other index, and leaves the cursor and the entry list alone; a
\* second toggle right after the first gives back the selected set that
\* was there before the first.
C25_ToggleFlipsCursorOnly ==
    [][Handled(" ") =>
          /\ \A i \in 0..MaxKeyEntries :
                 (i \in selected') <=>
                     IF i = current_index /\ i < Len(sess_entries)
                     THEN i \notin selected
                     ELSE i \in selected
          /\ current_index' = current_index
          /\ sess_entries' = sess_entries
          /\ (last_key = " " => selected' = prev_selected)]_vars

\* two toggles in a row on an entry that was selected, with another entry
\* selected as well
C25_Witness ==
    /\ last_key = " "
    /\ prev_selected # selected
    /\ current_index \in selected
    /\ Cardinality(selected) >= 2
    /\ keys_pressed >= 3
    /\ sess_pc = "draw"

\* C26: delete_directories is called only after the session ended through
\* the delete key with a non-empty selection and confirm_deletion returned
\* true; after q or Esc, an empty path list, a declined confirmation or an
\* I/O error inside the confirmation UI it is not called.
C26_DeleteOnlyAfterConfirm ==
    /\ delete_call.called =>
           /\ last_key = "d"
           /\ prev_selected # {}
           /\ sess_result.kind = "Ok"
           /\ sess_result.paths # {}
           /\ delete_call.paths = sess_result.paths
           /\ confirm_result.value
           /\ confirm_result.via \in {"y", "stdin"}
    /\ (main_pc \in {"done", "exit1"} /\ ~delete_call.called) <=>
           /\ main_pc \in {"done", "exit1"}
           /\ \/ sess_input = <<>>
              \/ last_key # "d"
              \/ sess_result.kind = "Err"
              \/ sess_result.paths = {}
              \/ ~confirm_result.value
    /\ (main_pc = "done" /\ confirm_result.via \in {"n", "io_error", "empty"}) =>
           ~delete_call.called
    /\ (main_pc = "done" /\ last_key = "q") =>
           (confirm_result = NoConfirm /\ ~delete_call.called)

\* deletion was called with the paths of two selected entries
C26_Witness ==
    /\ delete_call.called
    /\ Cardinality(delete_call.paths) = 2
    /\ confirm_result.via = "y"

\* the session was left with q while entries were selected
C26_WitnessQuit ==
    /\ main_pc = "done" /\ last_key = "q" /\ selected # {} /\ ~delete_call.called

\* C27: whatever keys were handled, the cursor is below entries.len() when
\* there are entries and 0 when there are none, every selected index is
\* below entries.len(), and the navigation keys leave selected unchanged.
C27_CursorAndSelectionInRange ==
    /\ [](sess_pc \in {"draw", "poll", "restore", "returned"} =>
             /\ (Len(sess_entries) > 0 => current_index < Len(sess_entries))
             /\ (Len(sess_entries) = 0 => current_index = 0)
             /\ \A i \in selected : i >= 0 /\ i < Len(sess_entries))
    /\ [][(\E k \in {"Up", "Down", "PageUp", "PageDown", "Home", "End"} : Handled(k)) =>
             selected' = selected]_vars

\* a page down from entry 1 that went exactly PageStep entries down and
\* stopped before the last entry, with a selection in place
C27_Witness ==
    /\ last_key = "PageDown"
    /\ current_index = PageStep
    /\ current_index + 1 < Len(sess_entries)
    /\ selected # {}

\* C30: render_list computes its scroll adjustment without unsigned
\* underflow for every list height, 0 included, and afterwards
\* scroll_offset <= current_index, and current_index < scroll_offset + h
\* when h >= 1.
C30_ScrollAdjustInRange ==
    /\ ~underflow
    /\ sess_pc # "panicked"
    /\ sess_pc = "poll" =>
           /\ scroll_offset <= current_index
           /\ (list_height >= 1 => current_index < scroll_offset + list_height)

\* the part of C30 that holds: the visibility of the current item
C30_CurrentItemVisible ==
    sess_pc = "poll" =>
        /\ scroll_offset <= current_index
        /\ (list_height >= 1 => current_index < scroll_offset + list_height)

\* C28: every path that joins successful adds to total_freed_bytes the
\* bytes of the files that were under it just before its removal, which
\* are the files that this removal takes from the disk; a path that joins
\* failed adds nothing; nothing removed ever comes back, so with duplicate
\* or nested paths no file is counted twice.
C28_FreedBytesOfSuccessfulOnly ==
    [][del_idx' = del_idx + 1 =>
          LET path == del_paths[del_idx + 1]
              under == {d \in del_dirs : Len(d) >= Len(path) /\ SubSeq(d, 1, Len(path)) = path}
          IN  /\ del_dirs' \subseteq del_dirs
              /\ successful' = Append(successful, path) =>
                     /\ total_freed_bytes' = total_freed_bytes + SumOver(DelBytes, under)
                     /\ under = del_dirs \ del_dirs'
                     /\ failed' = failed
              /\ successful' = successful =>
                     /\ failed' = Append(failed, path)
                     /\ total_freed_bytes' = total_freed_bytes]_vars

\* /a/b and then /a were both removed: 2 bytes and then the 1 byte left
C28_Witness ==
    /\ del_result = "Ok"
    /\ successful = <<<<"a", "b">>, <<"a">>>>
    /\ total_freed_bytes = 3

\* /a was removed with /a/b in it, the later /a/b failed and added nothing
C28_WitnessNested ==
    /\ del_result = "Ok"
    /\ del_paths = <<<<"a">>, <<"a", "b">>>>
    /\ successful = <<<<"a">>>>
    /\ failed = <<<<"a", "b">>>>
    /\ total_freed_bytes = 3

HasColumn(col) == \E i \in 1..Len(csv_header) : csv_header[i] = col

\* C29: under a header that passes the validation every loaded field is
\* the value of the column whose header carries the field's name, in any
\* column order, and the cumulative fields are read from the file only
\* when both cumulative columns are present (they equal the direct values
\* otherwise).
C29_FieldsByHeaderName ==
    (CsvOk /\ \A col \in {PathCol, FilesCol, SizeCol, TypeCol} : HasColumn(col)) =>
        /\ Len(csv_result.entries) = Len(csv_rows)
        /\ \A i \in 1..Len(csv_result.entries) :
             LET e == csv_result.entries[i]
                 r == csv_rows[i]
             IN  /\ e.path = FieldOf(r, PathCol)
                 /\ e.file_count = ParseU64(FieldOf(r, FilesCol)).val
                 /\ e.size_bytes = ParseU64(FieldOf(r, SizeCol)).val
                 /\ e.entry_type = IF FieldOf(r, TypeCol) = TempLit THEN "Temp" ELSE "Normal"
                 /\ IF HasColumn(CumFilesCol) /\ HasColumn(CumSizeCol)
                    THEN /\ e.cumulative_file_count = ParseU64(FieldOf(r, CumFilesCol)).val
                         /\ e.cumulative_size_bytes = ParseU64(FieldOf(r, CumSizeCol)).val
                    ELSE /\ e.cumulative_file_count = e.file_count
                         /\ e.cumulative_size_bytes = e.size_bytes

\* the same statement for the two column orders write_csv has produced
C29_FieldsInSchemaOrder ==
    (CsvOk /\ csv_header \in {NewHeader, OldHeader}) =>
        /\ Len(csv_result.entries) = Len(csv_rows)
        /\ \A i \in 1..Len(csv_result.entries) :
             LET e == csv_result.entries[i]
                 r == csv_rows[i]
             IN  /\ e.path = FieldOf(r, PathCol)
                 /\ e.file_count = ParseU64(FieldOf(r, FilesCol)).val
                 /\ e.size_bytes = ParseU64(FieldOf(r, SizeCol)).val
                 /\ e.entry_type = IF FieldOf(r, TypeCol) = TempLit THEN "Temp" ELSE "Normal"
                 /\ IF HasColumn(CumFilesCol) /\ HasColumn(CumSizeCol)
                    THEN /\ e.cumulative_file_count = ParseU64(FieldOf(r, CumFilesCol)).val
                         /\ e.cumulative_size_bytes = ParseU64(FieldOf(r, CumSizeCol)).val
                    ELSE /\ e.cumulative_file_count = e.file_count
                         /\ e.cumulative_size_bytes = e.size_bytes

====
